---------------------------- MODULE Spec2Model ----------------------------
(***************************************************************************)
(* Model of unicef_jobs.py: the filtered RSS generator.                    *)
(*                                                                         *)
(* A text is a sequence of characters; a character is a one-element TLA+   *)
(* string for ASCII ("P", "-", " ") and a named string for the others      *)
(* ("U2013" is the en dash U+2013, "TAB" is U+0009, "szlig" is U+00DF,     *)
(* "ordm" is U+00BA, "I_ACUTE" is U+00CD).                                  *)
(***************************************************************************)
EXTENDS Integers, Sequences, FiniteSets, TLC

VARIABLES
    \* --- text pipeline (normalize / normalize_grade / extract_grades / classify_item)
    text,           \* the searchable text under classification
    norm,           \* normalize(text)
    norm_graded,    \* normalize_grade(norm)
    grades,         \* extract_grades(norm_graded)
    result,         \* classify_item(text)
    tpc,            \* position in the text pipeline
    \* --- one run of main()
    pc,                 \* position of the run
    url_i,              \* download_feed: index of the next candidate in FEED_URLS
    tried,              \* the requests sent so far, each with what came back
    xml_bytes,          \* the body download_feed returned
    source_url,         \* the URL download_feed returned
    raw_items,          \* parse_rss_items(xml_bytes)
    item_i,             \* main: index of the next raw item of the loop
    included_items,     \* main: the list of included item dicts
    exclusion_reasons,  \* main: Counter of exclusion reasons
    passed,             \* history: the included items as appended, before sort and cut
    tree,               \* the document build_output_rss returned
    file,               \* the content of OUTPUT_FILE
    clock,              \* the wall clock read by datetime.now
    err,                \* the exception that ended the run ("none": none)
    \* --- stable_guid
    links,          \* the links to give a guid to
    digests,        \* the MD5 digest of each link done, in hexadecimal
    guids           \* stable_guid of each link done

tvars == <<text, norm, norm_graded, grades, result, tpc>>
mvars == <<pc, url_i, tried, xml_bytes, source_url, raw_items, item_i, included_items,
           exclusion_reasons, passed, tree, file, clock, err>>
gvars == <<links, digests, guids>>
vars == <<tvars, mvars, gvars>>

-----------------------------------------------------------------------------
(* Characters *)

LowerLetters == <<"a","b","c","d","e","f","g","h","i","j","k","l","m",
                  "n","o","p","q","r","s","t","u","v","w","x","y","z">>
UpperLetters == <<"A","B","C","D","E","F","G","H","I","J","K","L","M",
                  "N","O","P","Q","R","S","T","U","V","W","X","Y","Z">>
Digits == {"0","1","2","3","4","5","6","7","8","9"}

Range(s) == {s[i] : i \in DOMAIN s}

\* the characters the dash regex of normalize replaces
DashVariants == {"U2010","U2011","U2012","U2013","U2014","U2015",
                 "U2212","UFE58","UFE63","UFF0D"}

\* characters \s matches and str.strip() strips (a selection of Python's 29)
Whitespace == {" ", "TAB", "LF", "CR", "VT", "FF", "U00A0", "U2003"}

\* characters with the Unicode Lowercase property (str.islower)
LowerCaseChars == Range(LowerLetters) \cup {"szlig", "ordm", "ordf", "i_acute", "a_acute"}

\* \w of a str pattern: alphanumerics and the underscore
IsWordChar(c) ==
    \/ c \in Range(LowerLetters) \cup Range(UpperLetters) \cup Digits
    \/ c \in {"_", "szlig", "ordm", "ordf", "i_acute", "a_acute", "I_ACUTE", "A_ACUTE"}

IsDigit(c) == c \in Digits

\* str.upper() of one character: a sequence, since one character may map to
\* several (U+00DF -> "SS") or to itself (U+00BA has no upper-case form)
UpperChar(c) ==
    IF \E i \in 1..26 : LowerLetters[i] = c
    THEN <<UpperLetters[CHOOSE i \in 1..26 : LowerLetters[i] = c]>>
    ELSE IF c = "szlig" THEN <<"S", "S">>
    ELSE IF c = "i_acute" THEN <<"I_ACUTE">>
    ELSE IF c = "a_acute" THEN <<"A_ACUTE">>
    ELSE <<c>>

RECURSIVE upper(_)
upper(s) == IF s = <<>> THEN <<>> ELSE UpperChar(Head(s)) \o upper(Tail(s))

-----------------------------------------------------------------------------
(* normalize *)

\* re.sub(r"[\u2010...\uFF0D]", "-", text)
ReplaceDashes(s) == [i \in DOMAIN s |-> IF s[i] \in DashVariants THEN "-" ELSE s[i]]

\* re.sub(r"\s+", " ", text): every maximal whitespace run becomes one space
RECURSIVE CollapseWhitespace(_)
CollapseWhitespace(s) ==
    IF s = <<>> THEN <<>>
    ELSE IF Head(s) \in Whitespace
         THEN IF Len(s) >= 2 /\ s[2] \in Whitespace
              THEN CollapseWhitespace(Tail(s))
              ELSE <<" ">> \o CollapseWhitespace(Tail(s))
         ELSE <<Head(s)>> \o CollapseWhitespace(Tail(s))

RECURSIVE LStrip(_)
LStrip(s) == IF s # <<>> /\ Head(s) \in Whitespace THEN LStrip(Tail(s)) ELSE s

RECURSIVE RStrip(_)
RStrip(s) == IF s # <<>> /\ s[Len(s)] \in Whitespace
             THEN RStrip(SubSeq(s, 1, Len(s) - 1)) ELSE s

\* str.strip()
Strip(s) == RStrip(LStrip(s))

normalize_nostrip(t) == CollapseWhitespace(ReplaceDashes(upper(t)))

normalize(t) == Strip(CollapseWhitespace(ReplaceDashes(upper(t))))

-----------------------------------------------------------------------------
(* regular-expression helpers *)

WordAt(s, i) == i >= 1 /\ i <= Len(s) /\ IsWordChar(s[i])

\* \b in the gap before s[i] (i = Len(s) + 1: the end of the text)
BoundaryAt(s, i) == WordAt(s, i - 1) # WordAt(s, i)

StartsWithAt(s, i, p) ==
    /\ i + Len(p) - 1 <= Len(s)
    /\ SubSeq(s, i, i + Len(p) - 1) = p

DigitAt(s, i) == i >= 1 /\ i <= Len(s) /\ IsDigit(s[i])

\* the end of the digit run that starts at i (i - 1 when s[i] is no digit)
RECURSIVE DigitRunEnd(_, _)
DigitRunEnd(s, i) == IF DigitAt(s, i) THEN DigitRunEnd(s, i + 1) ELSE i - 1

-----------------------------------------------------------------------------
(* normalize_grade *)

\* (GS|NO|SB|LS|LSC), in the order of the alternation
TwoLetterPrefixes == << <<"G","S">>, <<"N","O">>, <<"S","B">>, <<"L","S">>, <<"L","S","C">> >>
\* [PDG]
OneLetterPrefixes == << <<"P">>, <<"D">>, <<"G">> >>

\* \b(prefix)(\d)\b at position i: exactly one digit, then a word boundary
HyphenMatches(s, i, p) ==
    /\ BoundaryAt(s, i)
    /\ StartsWithAt(s, i, p)
    /\ DigitAt(s, i + Len(p))
    /\ BoundaryAt(s, i + Len(p) + 1)

\* the first alternative, from the k-th on, that matches at i (0: none)
RECURSIVE HyphenMatchFrom(_, _, _, _)
HyphenMatchFrom(s, i, prefixes, k) ==
    IF k > Len(prefixes) THEN 0
    ELSE IF HyphenMatches(s, i, prefixes[k]) THEN k
    ELSE HyphenMatchFrom(s, i, prefixes, k + 1)

HyphenMatch(s, i, prefixes) ==
    IF BoundaryAt(s, i) THEN HyphenMatchFrom(s, i, prefixes, 1) ELSE 0

\* re.sub(r"\b(prefixes)(\d)\b", r"\1-\2", s), scanning from i
RECURSIVE HyphenSub(_, _, _)
HyphenSub(s, i, prefixes) ==
    IF i > Len(s) THEN <<>>
    ELSE LET k == HyphenMatch(s, i, prefixes) IN
         IF k # 0
         THEN prefixes[k] \o <<"-", s[i + Len(prefixes[k])]>>
                \o HyphenSub(s, i + Len(prefixes[k]) + 1, prefixes)
         ELSE <<s[i]>> \o HyphenSub(s, i + 1, prefixes)

normalize_grade(t) ==
    HyphenSub(HyphenSub(t, 1, TwoLetterPrefixes), 1, OneLetterPrefixes)

-----------------------------------------------------------------------------
(* extract_grades *)

\* (?:P|D|G|GS|NO|SB|LSC|LS), in the order of the alternation
GradePrefixes == << <<"P">>, <<"D">>, <<"G">>, <<"G","S">>, <<"N","O">>,
                    <<"S","B">>, <<"L","S","C">>, <<"L","S">> >>

\* \b(?:prefix)-\d+\b at i: the end of the match (0: no match).  \d+ is
\* greedy and a gap between two digits is no boundary, so the match must
\* take the whole digit run and a boundary must follow it.
GradeEnd(s, i, p) ==
    IF /\ BoundaryAt(s, i)
       /\ StartsWithAt(s, i, p \o <<"-">>)
       /\ DigitAt(s, i + Len(p) + 1)
       /\ BoundaryAt(s, DigitRunEnd(s, i + Len(p) + 1) + 1)
    THEN DigitRunEnd(s, i + Len(p) + 1)
    ELSE 0

\* the end of the match of the first alternative, from the k-th on (0: none)
RECURSIVE GradeMatchEndFrom(_, _, _)
GradeMatchEndFrom(s, i, k) ==
    IF k > Len(GradePrefixes) THEN 0
    ELSE LET e == GradeEnd(s, i, GradePrefixes[k]) IN
         IF e # 0 THEN e ELSE GradeMatchEndFrom(s, i, k + 1)

GradeMatchEnd(s, i) ==
    IF BoundaryAt(s, i) THEN GradeMatchEndFrom(s, i, 1) ELSE 0

\* re.findall(r"\b(?:P|D|G|GS|NO|SB|LSC|LS)-\d+\b", s), scanning from i
RECURSIVE FindGrades(_, _)
FindGrades(s, i) ==
    IF i > Len(s) THEN <<>>
    ELSE LET e == GradeMatchEnd(s, i) IN
         IF e # 0 THEN <<SubSeq(s, i, e)>> \o FindGrades(s, e + 1)
         ELSE FindGrades(s, i + 1)

SubGradeLetters == {"A", "B", "C", "D"}

\* \b(?:NO-[A-D]|NO[A-D])\b at i: the end of the match (0: no match)
NoVariantEnd(s, i) ==
    IF ~(BoundaryAt(s, i) /\ StartsWithAt(s, i, <<"N","O">>)) THEN 0
    ELSE IF /\ i + 3 <= Len(s) /\ s[i + 2] = "-" /\ s[i + 3] \in SubGradeLetters
            /\ BoundaryAt(s, i + 4)
         THEN i + 3
    ELSE IF /\ i + 2 <= Len(s) /\ s[i + 2] \in SubGradeLetters
            /\ BoundaryAt(s, i + 3)
         THEN i + 2
    ELSE 0

\* re.findall(r"\b(?:NO-[A-D]|NO[A-D])\b", s), scanning from i
RECURSIVE FindNoVariants(_, _)
FindNoVariants(s, i) ==
    IF i > Len(s) THEN <<>>
    ELSE LET e == NoVariantEnd(s, i) IN
         IF e # 0 THEN <<SubSeq(s, i, e)>> \o FindNoVariants(s, e + 1)
         ELSE FindNoVariants(s, i + 1)

extract_grades(t) == FindGrades(t, 1) \o FindNoVariants(t, 1)

-----------------------------------------------------------------------------
(* configuration *)

CONSULTANCY_KEYWORDS == <<
    <<"C","O","N","S","U","L","T","A","N","T">>,
    <<"C","O","N","S","U","L","T","A","N","C","Y">>,
    <<"I","N","D","I","V","I","D","U","A","L"," ","C","O","N","T","R","A","C","T","O","R">>,
    <<"C","O","N","T","R","A","C","T","O","R"," ","A","G","R","E","E","M","E","N","T">>,
    <<"I","C","A"," ">>,
    <<" ","I","C","A">>,
    <<" ","I","I","C","A"," ">>,
    <<" ","I","I","C","A">>,
    <<"I","I","C","A"," ">> >>

INTERNSHIP_KEYWORDS == <<
    <<"I","N","T","E","R","N"," ">>,
    <<" ","I","N","T","E","R","N">>,
    <<"I","N","T","E","R","N","S","H","I","P">>,
    <<"F","E","L","L","O","W","S","H","I","P">>,
    <<"F","E","L","L","O","W"," ">>,
    <<" ","F","E","L","L","O","W">>,
    <<"P","A","S","A","N","T","I_ACUTE","A">>,
    <<"P","A","S","A","N","T","I","A">>,
    <<"P","R","A_ACUTE","C","T","I","C","A">>,
    <<"P","R","A","C","T","I","C","A">> >>

INCLUDED_GRADES == {
    <<"P","-","1">>,
    <<"P","-","2">>,
    <<"P","-","4">>,
    <<"P","-","5">>,
    <<"D","-","1">>,
    <<"D","-","2">> }

EXCLUDED_GRADE_PREFIXES == <<
    <<"G","-">>,
    <<"G","S","-">>,
    <<"N","O","-">>,
    <<"S","B","-">>,
    <<"L","S","C","-">> >>

EXCLUDED_NO_VARIANTS == {
    <<"N","O","A">>,
    <<"N","O","B">>,
    <<"N","O","C">>,
    <<"N","O","D">>,
    <<"N","O","-","A">>,
    <<"N","O","-","B">>,
    <<"N","O","-","C">>,
    <<"N","O","-","D">> }

-----------------------------------------------------------------------------
(* has_keyword, classify_item *)

\* kw in text
Contains(t, kw) == \E i \in 1..(Len(t) - Len(kw) + 1) : SubSeq(t, i, i + Len(kw) - 1) = kw

has_keyword(t, keywords) == \E k \in DOMAIN keywords : Contains(t, keywords[k])

\* g.startswith(prefix)
StartsWith(g, prefix) == StartsWithAt(g, 1, prefix)

IsExcludedGrade(g) ==
    \/ g \in EXCLUDED_NO_VARIANTS
    \/ \E k \in DOMAIN EXCLUDED_GRADE_PREFIXES : StartsWith(g, EXCLUDED_GRADE_PREFIXES[k])

\* the first loop over grades: TRUE when it returns ("exclude", "excluded-grade")
RECURSIVE ExcludedLoop(_)
ExcludedLoop(gs) ==
    IF gs = <<>> THEN FALSE
    ELSE IF IsExcludedGrade(Head(gs)) THEN TRUE
    ELSE ExcludedLoop(Tail(gs))

\* the second loop over grades: TRUE when it returns ("include", "included-grade")
RECURSIVE IncludedLoop(_)
IncludedLoop(gs) ==
    IF gs = <<>> THEN FALSE
    ELSE IF Head(gs) \in INCLUDED_GRADES THEN TRUE
    ELSE IncludedLoop(Tail(gs))

Verdict(a, r) == [action |-> a, reason |-> r]

\* a variant that checks the included grades before the excluded ones and
\* the consultancy markers last
classify_item_reordered(t) ==
    LET n  == normalize(t)
        gs == extract_grades(normalize_grade(n))
    IN  IF IncludedLoop(gs) THEN Verdict("include", "included-grade")
        ELSE IF ExcludedLoop(gs) THEN Verdict("exclude", "excluded-grade")
        ELSE IF has_keyword(n, CONSULTANCY_KEYWORDS) THEN Verdict("exclude", "consultancy")
        ELSE IF has_keyword(n, INTERNSHIP_KEYWORDS) THEN Verdict("include", "internship")
        ELSE Verdict("exclude", "no-grade-match")

classify_item(t) ==
    LET n  == normalize(t)
        ng == normalize_grade(n)
    IN  IF has_keyword(n, CONSULTANCY_KEYWORDS) THEN Verdict("exclude", "consultancy")
        ELSE LET gs == extract_grades(ng) IN
             IF ExcludedLoop(gs) THEN Verdict("exclude", "excluded-grade")
             ELSE IF IncludedLoop(gs) THEN Verdict("include", "included-grade")
             ELSE IF has_keyword(n, INTERNSHIP_KEYWORDS) THEN Verdict("include", "internship")
             ELSE Verdict("exclude", "no-grade-match")

-----------------------------------------------------------------------------
(* The text pipeline as a state machine: a searchable text is drawn, then   *)
(* normalize, normalize_grade + extract_grades and classify_item are        *)
(* applied to it.                                                           *)

\* the longest text, in fragments (SpecClassify) and in characters (SpecNormalize)
MaxFrags == 3
MaxLen == 4

\* words and separators that searchable texts are built from
Fragments == <<
    <<" ">>,
    <<"C","O","N","S","U","L","T","A","N","T">>,
    <<"I","C","A">>,
    <<"A","F","R","I","C","A">>,
    <<"I","N","T","E","R","N">>,
    <<"I","N","T","E","R","N","A","T","I","O","N","A","L">>,
    <<"F","E","L","L","O","W","S">>,
    <<"P","4">>,
    <<"p","U2013","4">>,
    <<"G","S","-","4">>,
    <<"G","S","1","0">>,
    <<"N","O","B">>,
    <<"P","A","4">> >>

RECURSIVE Concat(_)
Concat(ss) == IF ss = <<>> THEN <<>> ELSE Head(ss) \o Concat(Tail(ss))

SeqsUpTo(S, n) == UNION {[1..k -> S] : k \in 0..n}

FragmentTexts == {Concat([i \in DOMAIN f |-> Fragments[f[i]]]) : f \in SeqsUpTo(DOMAIN Fragments, MaxFrags)}

\* characters that raw texts are built from
Alphabet == {"a", "B", "4", "-", "U2013", " ", "TAB", "szlig", "ordm"}

CharTexts == SeqsUpTo(Alphabet, MaxLen)

NoVerdict == Verdict("none", "none")

TextInit(inputs) ==
    /\ text \in inputs
    /\ norm = <<>>
    /\ norm_graded = <<>>
    /\ grades = <<>>
    /\ result = NoVerdict
    /\ tpc = "start"

\* norm = normalize(searchable_text)
NormalizeText ==
    /\ tpc = "start"
    /\ norm' = normalize(text)
    /\ tpc' = "normalized"
    /\ UNCHANGED <<text, norm_graded, grades, result, mvars, gvars>>

\* norm_graded = normalize_grade(norm); grades = extract_grades(norm_graded)
GradeText ==
    /\ tpc = "normalized"
    /\ norm_graded' = normalize_grade(norm)
    /\ grades' = extract_grades(norm_graded')
    /\ tpc' = "graded"
    /\ UNCHANGED <<text, norm, result, mvars, gvars>>

\* action, reason = classify_item(searchable)
ClassifyText ==
    /\ tpc = "graded"
    /\ result' = classify_item(text)
    /\ tpc' = "classified"
    /\ UNCHANGED <<text, norm, norm_graded, grades, mvars, gvars>>

-----------------------------------------------------------------------------
(* stable_guid *)

\* A 32-bit word is <<hi, lo>>, its two 16-bit halves.
Bit(a, k) == (a \div 2^k) % 2

\* a & b for a, b < 16
And4(a, b) ==
    Bit(a, 0) * Bit(b, 0) + 2 * Bit(a, 1) * Bit(b, 1)
        + 4 * Bit(a, 2) * Bit(b, 2) + 8 * Bit(a, 3) * Bit(b, 3)

\* a & b, a | b, a ^ b for a, b < 65536
BitAnd(a, b) ==
    And4(a % 16, b % 16) + 16 * And4((a \div 16) % 16, (b \div 16) % 16)
        + 256 * And4((a \div 256) % 16, (b \div 256) % 16)
        + 4096 * And4(a \div 4096, b \div 4096)

BitOr(a, b) == a + b - BitAnd(a, b)

BitXor(a, b) == a + b - 2 * BitAnd(a, b)

And32(x, y) == <<BitAnd(x[1], y[1]), BitAnd(x[2], y[2])>>
Or32(x, y) == <<BitOr(x[1], y[1]), BitOr(x[2], y[2])>>
Xor32(x, y) == <<BitXor(x[1], y[1]), BitXor(x[2], y[2])>>
Not32(x) == <<65535 - x[1], 65535 - x[2]>>

\* addition modulo 2^32
Add32(x, y) ==
    <<(x[1] + y[1] + ((x[2] + y[2]) \div 65536)) % 65536, (x[2] + y[2]) % 65536>>

\* rotation to the left by s bits, 0 <= s < 32
RotateLeft(x, s) ==
    LET y == IF s >= 16 THEN <<x[2], x[1]>> ELSE x
        r == s % 16
    IN <<((y[1] * 2^r) % 65536) + (y[2] \div 2^(16 - r)),
         ((y[2] * 2^r) % 65536) + (y[1] \div 2^(16 - r))>>

\* the per-step shift amounts of MD5
MD5_S ==
    <<7, 12, 17, 22, 7, 12, 17, 22, 7, 12, 17, 22, 7, 12, 17, 22,
      5, 9, 14, 20, 5, 9, 14, 20, 5, 9, 14, 20, 5, 9, 14, 20,
      4, 11, 16, 23, 4, 11, 16, 23, 4, 11, 16, 23, 4, 11, 16, 23,
      6, 10, 15, 21, 6, 10, 15, 21, 6, 10, 15, 21, 6, 10, 15, 21>>

\* the sine table of MD5, floor(2^32 * abs(sin(i))), as halves
MD5_K ==
    <<<<55146, 42104>>, <<59591, 46934>>, <<9248, 28891>>, <<49597, 52974>>,
      <<62844, 4015>>, <<18311, 50730>>, <<43056, 17939>>, <<64838, 38145>>,
      <<27008, 39128>>, <<35652, 63407>>, <<65535, 23473>>, <<35164, 55230>>,
      <<27536, 4386>>, <<64920, 29075>>, <<42617, 17294>>, <<18868, 2081>>,
      <<63006, 9570>>, <<49216, 45888>>, <<9822, 23121>>, <<59830, 51114>>,
      <<54831, 4189>>, <<580, 5203>>, <<55457, 59009>>, <<59347, 64456>>,
      <<8673, 52710>>, <<49975, 2006>>, <<62677, 3463>>, <<17754, 5357>>,
      <<43491, 59653>>, <<64751, 41976>>, <<26479, 729>>, <<36138, 19594>>,
      <<65530, 14658>>, <<34673, 63105>>, <<28061, 24866>>, <<64997, 14348>>,
      <<42174, 59972>>, <<19422, 53161>>, <<63163, 19296>>, <<48831, 48240>>,
      <<10395, 32454>>, <<60065, 10234>>, <<54511, 12421>>, <<1160, 7429>>,
      <<55764, 53305>>, <<59099, 39397>>, <<8098, 31992>>, <<50348, 22117>>,
      <<62505, 8772>>, <<17194, 65431>>, <<43924, 9127>>, <<64659, 41017>>,
      <<25947, 22979>>, <<36620, 52370>>, <<65519, 62589>>, <<34180, 24017>>,
      <<28584, 32335>>, <<65068, 59104>>, <<41729, 17172>>, <<19976, 4513>>,
      <<63315, 32386>>, <<48442, 62005>>, <<10967, 53947>>, <<60294, 54161>>>>

\* the initial state of MD5
MD5_Init == <<<<26437, 8961>>, <<61389, 43913>>, <<39098, 56574>>, <<4146, 21622>>>>

\* the printable ASCII characters, from code 32 on
Printable ==
    <<" ", "!", "QUOTE", "#", "$", "%", "&", "'", "(", ")", "*", "+", ",", "-", ".", "/",
      "0", "1", "2", "3", "4", "5", "6", "7", "8", "9", ":", ";", "<", "=", ">", "?",
      "@", "A", "B", "C", "D", "E", "F", "G", "H", "I", "J", "K", "L", "M", "N", "O",
      "P", "Q", "R", "S", "T", "U", "V", "W", "X", "Y", "Z", "[", "BACKSLASH", "]", "^", "_",
      "BACKTICK", "a", "b", "c", "d", "e", "f", "g", "h", "i", "j", "k", "l", "m", "n", "o",
      "p", "q", "r", "s", "t", "u", "v", "w", "x", "y", "z", "{", "|", "}", "~">>

\* link.encode("utf-8"), for links of ASCII characters
encode(link) ==
    [i \in DOMAIN link |-> 31 + CHOOSE k \in DOMAIN Printable : Printable[k] = link[i]]

\* the message with the padding of MD5: the bit 1, zeros up to 56 modulo 64
\* bytes, the length in bits as 8 bytes, lowest first
Padded(bytes) ==
    LET n == Len(bytes)
        zeros == (119 - n) % 64
        bits == 8 * n
    IN bytes \o <<128>> \o [i \in 1..zeros |-> 0]
             \o <<bits % 256, (bits \div 256) % 256, (bits \div 65536) % 256, 0, 0, 0, 0, 0>>

\* the 16 words of block b (from 0): four bytes each, lowest first
Block(p, b) ==
    [j \in 1..16 |->
        LET o == 64 * b + 4 * (j - 1)
        IN <<p[o + 3] + 256 * p[o + 4], p[o + 1] + 256 * p[o + 2]>>]

\* step i (from 0) of MD5 on the block M
Step(st, M, i) ==
    LET A == st[1]
        B == st[2]
        C == st[3]
        D == st[4]
        F == CASE i < 16 -> Or32(And32(B, C), And32(Not32(B), D))
               [] i >= 16 /\ i < 32 -> Or32(And32(D, B), And32(Not32(D), C))
               [] i >= 32 /\ i < 48 -> Xor32(B, Xor32(C, D))
               [] OTHER -> Xor32(C, Or32(B, Not32(D)))
        g == CASE i < 16 -> i
               [] i >= 16 /\ i < 32 -> (5 * i + 1) % 16
               [] i >= 32 /\ i < 48 -> (3 * i + 5) % 16
               [] OTHER -> (7 * i) % 16
        sum == Add32(Add32(Add32(F, A), MD5_K[i + 1]), M[g + 1])
    IN <<D, Add32(B, RotateLeft(sum, MD5_S[i + 1])), B, C>>

\* the n steps from step i on, by halves (the test has TLC compute the
\* first half before it starts on the second)
RECURSIVE Steps(_, _, _, _)
Steps(st, M, i, n) ==
    IF n = 1 THEN Step(st, M, i)
    ELSE LET half == Steps(st, M, i, n \div 2)
         IN IF half[2][1] < 0 THEN st
            ELSE Steps(half, M, i + (n \div 2), n - (n \div 2))

RECURSIVE Blocks(_, _, _)
Blocks(st, p, b) ==
    IF 64 * b >= Len(p) THEN st
    ELSE LET out == Steps(st, Block(p, b), 0, 64)
         IN Blocks([k \in 1..4 |-> Add32(st[k], out[k])], p, b + 1)

HexDigits == <<"0","1","2","3","4","5","6","7","8","9","a","b","c","d","e","f">>

HexByte(v) == <<HexDigits[(v \div 16) + 1], HexDigits[(v % 16) + 1]>>

\* the four bytes of a word, lowest first, in hexadecimal
HexWord(x) ==
    HexByte(x[2] % 256) \o HexByte(x[2] \div 256) \o HexByte(x[1] % 256) \o HexByte(x[1] \div 256)

\* hashlib.md5(bytes).hexdigest()
md5_hexdigest(bytes) ==
    LET st == Blocks(MD5_Init, Padded(bytes), 0)
    IN HexWord(st[1]) \o HexWord(st[2]) \o HexWord(st[3]) \o HexWord(st[4])

\* An unbounded integer is the sequence of its digits to the base 10000,
\* lowest first, without leading zeros: 0 is the empty sequence.
RECURSIVE MulAdd(_, _, _)
MulAdd(n, m, c) ==
    IF n = <<>>
    THEN IF c = 0 THEN <<>> ELSE <<c % 10000>> \o MulAdd(<<>>, m, c \div 10000)
    ELSE <<(Head(n) * m + c) % 10000>> \o MulAdd(Tail(n), m, (Head(n) * m + c) \div 10000)

HexValue(c) == (CHOOSE v \in DOMAIN HexDigits : HexDigits[v] = c) - 1

\* int(digits, 16) continued from n over the k digits from the i-th on, by halves
RECURSIVE IntHex(_, _, _, _)
IntHex(n, digits, i, k) ==
    IF k = 0 THEN n
    ELSE IF k = 1 THEN MulAdd(n, 16, HexValue(digits[i]))
    ELSE LET half == IntHex(n, digits, i, k \div 2)
         IN IF Len(half) < 0 THEN n
            ELSE IntHex(half, digits, i + (k \div 2), k - (k \div 2))

DecimalDigits == <<"0","1","2","3","4","5","6","7","8","9">>

\* the four decimal digits of v < 10000
FourDigits(v) ==
    <<DecimalDigits[(v \div 1000) + 1], DecimalDigits[((v \div 100) % 10) + 1],
      DecimalDigits[((v \div 10) % 10) + 1], DecimalDigits[(v % 10) + 1]>>

\* the decimal digits of v < 10000 without leading zeros
FirstDigits(v) ==
    SubSeq(FourDigits(v),
           IF v >= 1000 THEN 1 ELSE IF v >= 100 THEN 2 ELSE IF v >= 10 THEN 3 ELSE 4, 4)

\* str(n)
Str(n) ==
    IF n = <<>> THEN <<"0">>
    ELSE FirstDigits(n[Len(n)])
            \o [i \in 1..(4 * (Len(n) - 1)) |->
                    FourDigits(n[Len(n) - 1 - ((i - 1) \div 4)])[((i - 1) % 4) + 1]]

\* s.ljust(width, fill)
ljust(s, width, fill) ==
    IF Len(s) >= width THEN s ELSE s \o [i \in 1..(width - Len(s)) |-> fill]

\* a variant that cuts the hexadecimal digest instead of the decimal number
guid_of_digest_hex(digest) == ljust(SubSeq(digest, 1, 16), 16, "0")

\* numeric = str(int(digest, 16)); numeric[:16].ljust(16, "0")
guid_of_digest(digest) ==
    LET numeric == Str(IntHex(<<>>, digest, 1, Len(digest)))
    IN ljust(SubSeq(numeric, 1, IF Len(numeric) < 16 THEN Len(numeric) ELSE 16), 16, "0")

stable_guid(link) == guid_of_digest(md5_hexdigest(encode(link)))

\* the links of the listings with these job numbers
JobLink(id) ==
    <<"h","t","t","p","s",":","/","/","j","o","b","s",".","u","n","i","c","e","f",".","o","r","g",
      "/","e","n","-","u","s","/","j","o","b","/">> \o Str(MulAdd(<<>>, 1, id))

\* the highest of the low job numbers of the pool
MaxJobId == 8

JobIds == (1..MaxJobId) \cup {46399298, 105921702}

LinkPairs == {<<JobLink(a), JobLink(b)>> : a, b \in JobIds}

GuidInit ==
    /\ links \in LinkPairs
    /\ digests = <<>>
    /\ guids = <<>>

GuidIdle ==
    /\ links = <<>>
    /\ digests = <<>>
    /\ guids = <<>>

\* stable_guid(link) for the next link
StableGuid ==
    /\ Len(guids) < Len(links)
    /\ digests' = Append(digests, md5_hexdigest(encode(links[Len(guids) + 1])))
    /\ guids' = Append(guids, stable_guid(links[Len(guids) + 1]))
    /\ UNCHANGED <<links, tvars, mvars>>

GuidNext == StableGuid

-----------------------------------------------------------------------------
(* parse_pub_date *)

\* A date string is [fmt, wall, zone]: its format, the wall-clock time it
\* spells (in hours) and the zone it carries.  A datetime is [wall, tzinfo]:
\* tzinfo is "+0000", "+0100" or, for a naive datetime, NoTz.
NoTz == "none"
Datetime(w, tz) == [wall |-> w, tzinfo |-> tz]
IsAware(dt) == dt.tzinfo # NoTz

\* dt.utcoffset() in hours
UtcOffset(dt) == IF dt.tzinfo = "+0100" THEN 1 ELSE 0

\* the tzinfo of a parsed zone: "-0000" and a missing zone give none
ZoneInfo(z) == IF z \in {"+0000", "+0100"} THEN z ELSE NoTz

\* if dt.tzinfo is None: dt = dt.replace(tzinfo=timezone.utc)
UtcIfNaive(dt) == IF IsAware(dt) THEN dt ELSE Datetime(dt.wall, "+0000")

\* datetime.strptime(date_str.strip(), fmt) for the three formats, in order
Strptime(d) ==
    CASE d.fmt = "iso_tz"   -> Datetime(d.wall, ZoneInfo(d.zone))
      [] d.fmt = "iso_z"    -> Datetime(d.wall, NoTz)
      [] d.fmt = "iso_date" -> Datetime((d.wall \div 24) * 24, NoTz)

parse_pub_date(d, now) ==
    IF d.fmt \in {"absent", "empty"} THEN now
    ELSE IF d.fmt = "rfc2822"
         THEN Datetime(d.wall, ZoneInfo(d.zone))        \* return parsedate_to_datetime(date_str)
    ELSE IF d.fmt \in {"iso_tz", "iso_z", "iso_date"}
         THEN UtcIfNaive(Strptime(d))
    ELSE now

\* whether parse_pub_date reads the clock for d
ReadsClock(d) == d.fmt \notin {"rfc2822", "iso_tz", "iso_z", "iso_date"}

\* email.utils.format_datetime: a naive datetime is written with zone -0000
format_datetime(dt) ==
    [wall |-> dt.wall, zone |-> IF IsAware(dt) THEN dt.tzinfo ELSE "-0000"]

\* what datetime comparison orders by
SortKey(dt) == dt.wall - UtcOffset(dt)

-----------------------------------------------------------------------------
(* feeds *)

MAX_ITEMS == 50

FEED_URLS == <<"https://careers.pageuppeople.com/671/cw/en/rss",
               "http://careers.pageuppeople.com/671/cw/en/rss",
               "https://careers.pageuppeople.com/671/cw/en-us/rss",
               "http://careers.pageuppeople.com/671/cw/en-us/rss">>

\* the longest feed, in items
MaxFeedLen == 54
\* how often the clock may advance during a run
MaxTicks == 2
\* the clock when the run starts (later than every date of a feed)
NowStart == 100

\* title, text nodes of the HTML description, categories
Listing(t, d, c) == [title |-> t, description |-> d, categories |-> c]

Listings == <<
    Listing(<<"P","4">>, <<>>, <<>>),
    Listing(<<"G","S","-","4">>, << <<"P","-","2">> >>, <<>>),
    Listing(<<"I","N","T","E","R","N","S","H","I","P">>, <<>>, <<>>),
    Listing(<<"C","O","N","S","U","L","T","A","N","T">>, << <<" ">>, <<"D","1">> >>, <<>>),
    Listing(<<"P","A","4">>, <<>>, << <<"d","U2013","2">> >>),
    Listing(<<"P","A","4">>, << <<"N","O">>, <<"1">> >>, <<>>) >>

\* listings that classify_item includes
PassingListings == <<1, 3, 5>>

DateStr(f, w, z) == [fmt |-> f, wall |-> w, zone |-> z]

\* the i-th item of a feed of the given kind
ItemAt(kind, i) ==
    LET L(k) == Listings[k]
        Raw(l, d) == [title |-> l.title, link |-> i, description |-> l.description,
                      pub_date_str |-> d, categories |-> l.categories]
    IN CASE kind = "newest_last" ->
              Raw(L(IF i % 27 = 0 THEN 2 ELSE 1), DateStr("rfc2822", i, "+0000"))
         [] kind = "mixed" ->
              Raw(L(((i - 1) % Len(Listings)) + 1),
                  DateStr("rfc2822", (i * 7) % 11, IF i % 2 = 0 THEN "+0000" ELSE "+0100"))
         [] kind = "iso" ->
              Raw(L(PassingListings[((i - 1) % 3) + 1]),
                  DateStr(<<"iso_tz", "iso_z", "iso_date">>[((i - 1) % 3) + 1],
                          (i * 17) % 60, "+0100"))
         [] kind = "undated" ->
              Raw(L(PassingListings[((i - 1) % 3) + 1]),
                  DateStr(<<"empty", "garbage", "rfc2822", "absent">>[((i - 1) % 4) + 1],
                          NowStart + 1, "+0000"))
         [] kind = "zoneless" ->
              Raw(L(PassingListings[((i - 1) % 3) + 1]),
                  DateStr("rfc2822", 10 - i, <<"none", "-0000", "+0000">>[((i - 1) % 3) + 1]))

Feed(k, n) == [kind |-> k, n |-> n]

Feeds == {Feed("newest_last", MaxFeedLen), Feed("newest_last", MaxFeedLen - 3),
          Feed("mixed", MaxFeedLen), Feed("mixed", 7), Feed("mixed", 0),
          Feed("iso", 5), Feed("undated", 4),
          Feed("zoneless", 1), Feed("zoneless", 2), Feed("zoneless", 3)}

\* parse_rss_items on the body of a feed
FeedItems(f) == [i \in 1..f.n |-> ItemAt(f.kind, i)]

-----------------------------------------------------------------------------
(* strip_html, build_searchable_text *)

RECURSIVE Join(_, _)
Join(parts, sep) ==
    IF parts = <<>> THEN <<>>
    ELSE IF Len(parts) = 1 THEN parts[1]
    ELSE parts[1] \o sep \o Join(Tail(parts), sep)

RECURSIVE StrippedNodes(_)
StrippedNodes(nodes) ==
    IF nodes = <<>> THEN <<>>
    ELSE IF Strip(Head(nodes)) = <<>> THEN StrippedNodes(Tail(nodes))
    ELSE <<Strip(Head(nodes))>> \o StrippedNodes(Tail(nodes))

\* BeautifulSoup(html).get_text(separator=" ", strip=True) over the text nodes
strip_html(html) == IF html = <<>> THEN <<>> ELSE Join(StrippedNodes(html), <<" ">>)

build_searchable_text(item) ==
    Join(<<item.title, strip_html(item.description)>> \o item.categories, <<" ">>)

-----------------------------------------------------------------------------
(* download_feed *)

\* What a candidate URL answers.  exc: requests.get raised a
\* RequestException; ct_xml, ct_rss: the Content-Type holds "xml", "rss";
\* rss_tag: "<rss" is in the first 500 characters; item_tag: "<item" is in
\* the text; wellformed: ET.fromstring accepts the body; feed: its items.
Response(e, st, cx, cr, rt, it, wf, f) ==
    [exc |-> e, status |-> st, ct_xml |-> cx, ct_rss |-> cr,
     rss_tag |-> rt, item_tag |-> it, wellformed |-> wf, feed |-> f]

NoFeed == Feed("none", 0)

Responses ==
    {Response(TRUE, 0, FALSE, FALSE, FALSE, FALSE, FALSE, NoFeed),          \* request error
     Response(FALSE, 404, TRUE, FALSE, TRUE, TRUE, TRUE, NoFeed),           \* not 200
     Response(FALSE, 200, FALSE, FALSE, FALSE, TRUE, FALSE, NoFeed),        \* text/html page
     Response(FALSE, 200, TRUE, FALSE, TRUE, FALSE, TRUE, NoFeed),          \* RSS without <item
     Response(FALSE, 200, TRUE, FALSE, TRUE, TRUE, FALSE, NoFeed)}          \* <item, not well-formed
    \cup {Response(FALSE, 200, TRUE, TRUE, TRUE, TRUE, TRUE, f) : f \in Feeds}
    \cup {Response(FALSE, 200, FALSE, FALSE, TRUE, TRUE, TRUE, Feed("mixed", 7))}  \* text/plain, <rss

\* how one iteration of the loop of download_feed ends
Outcome(r) ==
    IF r.exc THEN "request-error"
    ELSE IF r.status # 200 THEN "http-status"
    ELSE IF ~r.ct_xml /\ ~r.ct_rss /\ ~r.rss_tag THEN "not-xml"
    ELSE IF ~r.item_tag THEN "no-item"
    ELSE "ok"

\* a variant that gives up after the first request error
Request_stop_on_error ==
    /\ pc = "download"
    /\ url_i <= Len(FEED_URLS)
    /\ \E r \in Responses :
        /\ tried' = Append(tried, [url |-> FEED_URLS[url_i], response |-> r])
        /\ IF Outcome(r) = "ok"
           THEN /\ xml_bytes' = r
                /\ source_url' = FEED_URLS[url_i]
                /\ pc' = "parse"
                /\ UNCHANGED url_i
           ELSE /\ url_i' = IF r.exc THEN Len(FEED_URLS) + 1 ELSE url_i + 1
                /\ UNCHANGED <<xml_bytes, source_url, pc>>
    /\ UNCHANGED <<raw_items, item_i, included_items, exclusion_reasons, passed, tree,
                   file, clock, err, tvars, gvars>>

\* one iteration of "for url in FEED_URLS"
Request ==
    /\ pc = "download"
    /\ url_i <= Len(FEED_URLS)
    /\ \E r \in Responses :
        /\ tried' = Append(tried, [url |-> FEED_URLS[url_i], response |-> r])
        /\ IF Outcome(r) = "ok"
           THEN /\ xml_bytes' = r
                /\ source_url' = FEED_URLS[url_i]
                /\ pc' = "parse"
                /\ UNCHANGED url_i
           ELSE /\ url_i' = url_i + 1
                /\ UNCHANGED <<xml_bytes, source_url, pc>>
    /\ UNCHANGED <<raw_items, item_i, included_items, exclusion_reasons, passed, tree,
                   file, clock, err, tvars, gvars>>

\* raise RuntimeError("Could not download a valid RSS feed from any URL")
FetchExhausted ==
    /\ pc = "download"
    /\ url_i > Len(FEED_URLS)
    /\ pc' = "aborted"
    /\ err' = "RuntimeError"
    /\ UNCHANGED <<url_i, tried, xml_bytes, source_url, raw_items, item_i, included_items,
                   exclusion_reasons, passed, tree, file, clock, tvars, gvars>>


-----------------------------------------------------------------------------
(* main *)

Reasons == {"consultancy", "excluded-grade", "no-grade-match"}

NoResponse == Response(FALSE, 0, FALSE, FALSE, FALSE, FALSE, FALSE, NoFeed)

\* datetime.now(timezone.utc)
Now(c) == Datetime(c, "+0000")

\* the dict main appends for an included item
IncludedItem(item, pub_dt, url) ==
    [title |-> item.title,
     link |-> item.link,
     description |-> strip_html(item.description),
     guid |-> [stable_guid_of |-> item.link],
     pubDate |-> format_datetime(pub_dt),
     pub_dt |-> pub_dt,
     source_url |-> url,
     source_name |-> "UNICEF Careers RSS"]

\* del it["pub_dt"]
WithoutPubDt(it) ==
    [title |-> it.title, link |-> it.link, description |-> it.description,
     guid |-> it.guid, pubDate |-> it.pubDate,
     source_url |-> it.source_url, source_name |-> it.source_name]

\* x["pub_dt"] of every two items can be compared: a naive and an aware
\* datetime cannot (TypeError)
Comparable(items) == Cardinality({IsAware(items[i].pub_dt) : i \in DOMAIN items}) <= 1

\* how many items come before items[i] once the list is sorted newest
\* first: the newer ones, and of the equally old the earlier ones (the sort
\* is stable)
RankNewestFirst(items, i) ==
    Cardinality({j \in DOMAIN items :
        \/ SortKey(items[j].pub_dt) > SortKey(items[i].pub_dt)
        \/ SortKey(items[j].pub_dt) = SortKey(items[i].pub_dt) /\ j < i})

\* the items in the order of their ranks
Ranked(items, ranks) ==
    [r \in DOMAIN items |-> items[CHOOSE i \in DOMAIN items : ranks[i] = r - 1]]

\* included_items.sort(key=lambda x: x["pub_dt"], reverse=True)
sort_newest_first(items) ==
    Ranked(items, SubSeq([i \in DOMAIN items |-> RankNewestFirst(items, i)], 1, Len(items)))

\* a variant that cuts the list before it is sorted
newest_cut_before_sort(items) ==
    sort_newest_first(SubSeq(items, 1, IF Len(items) < MAX_ITEMS THEN Len(items) ELSE MAX_ITEMS))

\* sort, then included_items[:MAX_ITEMS]
newest(items) ==
    LET sorted == sort_newest_first(items)
    IN SubSeq(sorted, 1, IF Len(sorted) < MAX_ITEMS THEN Len(sorted) ELSE MAX_ITEMS)

\* The document as the chunks tree.write sends to the file, in order: the
\* declaration with the channel's head, one chunk per item, the closing tags.
Chunk(t, b) == [tag |-> t, body |-> b]

build_output_rss(items, now) ==
    <<Chunk("channel", format_datetime(now))>>
        \o [i \in DOMAIN items |-> Chunk("item", items[i])]
        \o <<Chunk("end", "")>>

\* the file as it was before the run
PreviousFile == [previous |-> TRUE, chunks |-> <<>>]

MainInit ==
    /\ pc = "download"
    /\ url_i = 1
    /\ tried = <<>>
    /\ xml_bytes = NoResponse
    /\ source_url = "none"
    /\ raw_items = <<>>
    /\ item_i = 1
    /\ included_items = <<>>
    /\ exclusion_reasons = [r \in Reasons |-> 0]
    /\ passed = <<>>
    /\ tree = <<>>
    /\ file = PreviousFile
    /\ clock = NowStart
    /\ err = "none"

\* raw_items = parse_rss_items(xml_bytes)
ParseFeed ==
    /\ pc = "parse"
    /\ xml_bytes.wellformed
    /\ raw_items' = FeedItems(xml_bytes.feed)
    /\ item_i' = 1
    /\ pc' = "classify"
    /\ UNCHANGED <<url_i, tried, xml_bytes, source_url, included_items, exclusion_reasons,
                   passed, tree, file, clock, err, tvars, gvars>>

\* a variant in which the output file was opened before the feed is parsed
ParseFails_output_opened ==
    /\ pc = "parse"
    /\ ~xml_bytes.wellformed
    /\ pc' = "aborted"
    /\ err' = "ParseError"
    /\ file' = [previous |-> FALSE, chunks |-> <<>>]
    /\ UNCHANGED <<url_i, tried, xml_bytes, source_url, raw_items, item_i, included_items,
                   exclusion_reasons, passed, tree, clock, tvars, gvars>>

\* ET.fromstring raises ParseError
ParseFails ==
    /\ pc = "parse"
    /\ ~xml_bytes.wellformed
    /\ pc' = "aborted"
    /\ err' = "ParseError"
    /\ UNCHANGED <<url_i, tried, xml_bytes, source_url, raw_items, item_i, included_items,
                   exclusion_reasons, passed, tree, file, clock, tvars, gvars>>

\* one iteration of "for item in raw_items"
ClassifyItem ==
    /\ pc = "classify"
    /\ item_i <= Len(raw_items)
    /\ LET item == raw_items[item_i]
           v == classify_item(build_searchable_text(item))
       IN IF v.action = "exclude"
          THEN /\ exclusion_reasons' = [exclusion_reasons EXCEPT ![v.reason] = @ + 1]
               /\ UNCHANGED <<included_items, passed, clock>>
          ELSE /\ \E tick \in {0, 1} :
                    /\ tick = 1 => (ReadsClock(item.pub_date_str) /\ clock < NowStart + MaxTicks)
                    /\ clock' = clock + tick
               /\ LET it == IncludedItem(item, parse_pub_date(item.pub_date_str, Now(clock')),
                                         source_url)
                  IN /\ included_items' = Append(included_items, it)
                     /\ passed' = Append(passed, it)
               /\ UNCHANGED exclusion_reasons
    /\ item_i' = item_i + 1
    /\ UNCHANGED <<pc, url_i, tried, xml_bytes, source_url, raw_items, tree, file, err, tvars, gvars>>

\* sort newest first, keep the top MAX_ITEMS, drop pub_dt, build the tree
SortAndBuild ==
    /\ pc = "classify"
    /\ item_i > Len(raw_items)
    /\ Comparable(included_items)
    /\ included_items' = [i \in DOMAIN newest(included_items) |->
                            WithoutPubDt(newest(included_items)[i])]
    /\ tree' = build_output_rss(included_items', Now(clock))
    /\ pc' = "write"
    /\ UNCHANGED <<url_i, tried, xml_bytes, source_url, raw_items, item_i, exclusion_reasons,
                   passed, file, clock, err, tvars, gvars>>

\* the sort compares a naive with an aware datetime: TypeError
SortFails ==
    /\ pc = "classify"
    /\ item_i > Len(raw_items)
    /\ ~Comparable(included_items)
    /\ pc' = "aborted"
    /\ err' = "TypeError"
    /\ UNCHANGED <<url_i, tried, xml_bytes, source_url, raw_items, item_i, included_items,
                   exclusion_reasons, passed, tree, file, clock, tvars, gvars>>

\* tree.write(OUTPUT_FILE, ...) opens the file with mode "w": it is cut to nothing
OpenOutput ==
    /\ pc = "write"
    /\ file' = [previous |-> FALSE, chunks |-> <<>>]
    /\ pc' = "writing"
    /\ UNCHANGED <<url_i, tried, xml_bytes, source_url, raw_items, item_i, included_items,
                   exclusion_reasons, passed, tree, clock, err, tvars, gvars>>

\* open() raises OSError
OpenFails ==
    /\ pc = "write"
    /\ pc' = "aborted"
    /\ err' = "OSError"
    /\ UNCHANGED <<url_i, tried, xml_bytes, source_url, raw_items, item_i, included_items,
                   exclusion_reasons, passed, tree, file, clock, tvars, gvars>>

\* the serializer writes the next part of the document
WriteChunk ==
    /\ pc = "writing"
    /\ Len(file.chunks) < Len(tree)
    /\ file' = [file EXCEPT !.chunks = Append(@, tree[Len(@) + 1])]
    /\ UNCHANGED <<pc, url_i, tried, xml_bytes, source_url, raw_items, item_i, included_items,
                   exclusion_reasons, passed, tree, clock, err, tvars, gvars>>

\* a write raises OSError: what was written stays
WriteFails ==
    /\ pc = "writing"
    /\ Len(file.chunks) < Len(tree)
    /\ pc' = "aborted"
    /\ err' = "OSError"
    /\ UNCHANGED <<url_i, tried, xml_bytes, source_url, raw_items, item_i, included_items,
                   exclusion_reasons, passed, tree, file, clock, tvars, gvars>>

\* the document is written and the file closed
CloseOutput ==
    /\ pc = "writing"
    /\ file.chunks = tree
    /\ pc' = "summary"
    /\ UNCHANGED <<url_i, tried, xml_bytes, source_url, raw_items, item_i, included_items,
                   exclusion_reasons, passed, tree, file, clock, err, tvars, gvars>>

\* the log summary
PrintSummary ==
    /\ pc = "summary"
    /\ pc' = "done"
    /\ UNCHANGED <<url_i, tried, xml_bytes, source_url, raw_items, item_i, included_items,
                   exclusion_reasons, passed, tree, file, clock, err, tvars, gvars>>

TextIdle ==
    /\ text = <<>>
    /\ norm = <<>>
    /\ norm_graded = <<>>
    /\ grades = <<>>
    /\ result = NoVerdict
    /\ tpc = "idle"

Init == MainInit /\ TextIdle /\ GuidIdle

Next ==
    \/ Request
    \/ FetchExhausted
    \/ ParseFeed
    \/ ParseFails
    \/ ClassifyItem
    \/ SortAndBuild
    \/ SortFails
    \/ OpenOutput
    \/ OpenFails
    \/ WriteChunk
    \/ WriteFails
    \/ CloseOutput
    \/ PrintSummary

Spec == Init /\ [][Next]_vars

ClassifyNext ==
    \/ NormalizeText
    \/ GradeText
    \/ ClassifyText

InitClassify == TextInit(FragmentTexts) /\ MainInit /\ GuidIdle

SpecClassify == InitClassify /\ [][ClassifyNext]_vars

NormalizeNext == NormalizeText

InitNormalize == TextInit(CharTexts) /\ MainInit /\ GuidIdle

SpecNormalize == InitNormalize /\ [][NormalizeNext]_vars

InitGuid == GuidInit /\ TextIdle /\ MainInit

SpecGuid == InitGuid /\ [][GuidNext]_vars


-----------------------------------------------------------------------------
(* Properties of the text pipeline *)

Verdicts == {Verdict("exclude", "consultancy"), Verdict("exclude", "excluded-grade"),
             Verdict("include", "included-grade"), Verdict("include", "internship"),
             Verdict("exclude", "no-grade-match")}

HasConsultancyMarker(n) == \E kw \in Range(CONSULTANCY_KEYWORDS) : Contains(n, kw)
HasInternshipMarker(n) == \E kw \in Range(INTERNSHIP_KEYWORDS) : Contains(n, kw)
HasExcludedToken(gs) ==
    \E g \in Range(gs) :
        \/ g \in EXCLUDED_NO_VARIANTS
        \/ \E p \in Range(EXCLUDED_GRADE_PREFIXES) :
                Len(g) >= Len(p) /\ SubSeq(g, 1, Len(p)) = p
HasIncludedToken(gs) == \E g \in Range(gs) : g \in INCLUDED_GRADES

\* the priority chain of the claim, over the normalized text n and the
\* grade tokens gs extracted from it
PriorityChain(n, gs) ==
    CASE HasConsultancyMarker(n) -> Verdict("exclude", "consultancy")
      [] ~HasConsultancyMarker(n) /\ HasExcludedToken(gs) -> Verdict("exclude", "excluded-grade")
      [] ~HasConsultancyMarker(n) /\ ~HasExcludedToken(gs) /\ HasIncludedToken(gs)
            -> Verdict("include", "included-grade")
      [] ~HasConsultancyMarker(n) /\ ~HasExcludedToken(gs) /\ ~HasIncludedToken(gs)
            /\ HasInternshipMarker(n) -> Verdict("include", "internship")
      [] OTHER -> Verdict("exclude", "no-grade-match")

IsolatedAt(n, i, w) ==
    /\ StartsWithAt(n, i, w)
    /\ ~WordAt(n, i - 1)
    /\ ~WordAt(n, i + Len(w))

HasToken(n, w) == \E i \in 1..Len(n) : IsolatedAt(n, i, w)

ICA == <<"I","C","A">>
IICA == <<"I","I","C","A">>
INTERN == <<"I","N","T","E","R","N">>
FELLOW == <<"F","E","L","L","O","W">>

\* the consultancy markers other than the two abbreviations
ConsultancyWords == {CONSULTANCY_KEYWORDS[k] : k \in 1..4}
\* the internship markers other than the two short forms
InternshipWords == {INTERNSHIP_KEYWORDS[k] : k \in {3, 4, 7, 8, 9, 10}}

\* C5: ICA and IICA are matched only as space-delimited tokens: a text in
\* which ICA occurs only inside a longer word, with no other consultancy
\* marker, is never classified as consultancy.
C5_IcaOnlyAsToken ==
    (/\ tpc = "classified"
     /\ Contains(norm, ICA)
     /\ ~HasToken(norm, ICA)
     /\ ~HasToken(norm, IICA)
     /\ \A kw \in ConsultancyWords : ~Contains(norm, kw))
        => result.reason # "consultancy"

\* C6: INTERN and FELLOW are matched only as whole tokens: a text with no
\* grade token and no consultancy marker in which INTERN or FELLOW occurs
\* only inside a longer word, with no other internship marker, is classified
\* (exclude, no-grade-match).
C6_InternOnlyAsToken ==
    (/\ tpc = "classified"
     /\ grades = <<>>
     /\ ~HasConsultancyMarker(norm)
     /\ Contains(norm, INTERN) \/ Contains(norm, FELLOW)
     /\ ~HasToken(norm, INTERN)
     /\ ~HasToken(norm, FELLOW)
     /\ \A kw \in InternshipWords : ~Contains(norm, kw))
        => result = Verdict("exclude", "no-grade-match")

\* the recognized prefixes of the claim
RecognizedPrefixes == Range(TwoLetterPrefixes) \cup Range(OneLetterPrefixes)

\* a recognized prefix p starts at a word boundary at i and a digit follows it
PrefixBeforeDigitAt(n, i, p) ==
    /\ BoundaryAt(n, i)
    /\ StartsWithAt(n, i, p)
    /\ DigitAt(n, i + Len(p))

\* C8: on normalized text, normalize_grade hyphenates every recognized
\* prefix that starts at a word boundary and is followed by a run of one or
\* more digits, so that extract_grades returns the hyphenated token; a
\* prefix inside a longer alphabetic run yields no token.
C8_HyphenBeforeEveryDigitRun ==
    tpc = "graded" =>
        /\ \A i \in 1..Len(norm) : \A p \in RecognizedPrefixes :
            (/\ PrefixBeforeDigitAt(norm, i, p)
             /\ BoundaryAt(norm, DigitRunEnd(norm, i + Len(p)) + 1))
                => (p \o <<"-">> \o SubSeq(norm, i + Len(p), DigitRunEnd(norm, i + Len(p))))
                        \in Range(grades)
        /\ (\A i \in 1..Len(norm) : \A p \in RecognizedPrefixes :
                ~PrefixBeforeDigitAt(norm, i, p)) => norm_graded = norm

\* characters str.upper() changes
HasUpperForm(c) == UpperChar(c) # <<c>>

NoWhitespaceDefects(n) ==
    /\ \A i \in 1..(Len(n) - 1) : ~(n[i] \in Whitespace /\ n[i + 1] \in Whitespace)
    /\ n # <<>> => (n[1] \notin Whitespace /\ n[Len(n)] \notin Whitespace)

\* C10 as stated: normalize is idempotent and its result holds no lower-case
\* character, no dash variant, no whitespace run and no leading or trailing
\* whitespace; the empty text yields the empty text.
C10_NoLowerCaseLeft ==
    tpc = "normalized" =>
        /\ normalize(norm) = norm
        /\ \A c \in Range(norm) : c \notin LowerCaseChars
        /\ \A c \in Range(norm) : c \notin DashVariants
        /\ NoWhitespaceDefects(norm)
        /\ (text = <<>> => norm = <<>>)

\* C10 amended: normalize is idempotent and its result holds no character
\* that has an upper-case form, no dash variant, no whitespace other than
\* single inner spaces; the empty text yields the empty text.  (A lower-case
\* character without an upper-case form, such as U+00BA, stays.)
C10_Normalized ==
    tpc = "normalized" =>
        /\ normalize(norm) = norm
        /\ \A c \in Range(norm) : ~HasUpperForm(c)
        /\ \A c \in Range(norm) : c \notin DashVariants
        /\ \A c \in Range(norm) : c \in Whitespace => c = " "
        /\ NoWhitespaceDefects(norm)
        /\ (text = <<>> => norm = <<>>)

\* a normalized text that had a leading whitespace run, a lower-case letter
\* and a dash variant
C10_Witness ==
    /\ tpc = "normalized"
    /\ Len(text) >= 4
    /\ text[1] \in Whitespace /\ text[2] \in Whitespace
    /\ \E i \in DOMAIN text : text[i] \in Range(LowerLetters)
    /\ \E i \in DOMAIN text : text[i] \in DashVariants
    /\ norm # text

-----------------------------------------------------------------------------
(* Properties of stable_guid *)

IsGuid(g) == Len(g) = 16 /\ \A i \in 1..16 : g[i] \in Range(DecimalDigits)

\* C9 as stated: stable_guid(L) is always 16 ASCII digits, and two links
\* have the same guid if and only if they are the same link.
C9_GuidInjective ==
    Len(guids) = 2 =>
        /\ IsGuid(guids[1]) /\ IsGuid(guids[2])
        /\ (guids[1] = guids[2]) <=> (links[1] = links[2])

\* C9 amended: stable_guid(L) is always 16 ASCII digits and is a function
\* of the link, through its digest: the same link, and the same digest,
\* always give the same guid.  (Different links may share a guid.)
C9_GuidDeterministic ==
    /\ \A k \in DOMAIN guids : IsGuid(guids[k])
    /\ \A k \in DOMAIN guids : guids[k] = stable_guid(links[k])
    /\ Len(guids) = 2 =>
        /\ links[1] = links[2] => guids[1] = guids[2]
        /\ digests[1] = digests[2] => guids[1] = guids[2]

\* two different links with different digests got the same guid
C9_Witness ==
    /\ Len(guids) = 2
    /\ links[1] # links[2]
    /\ digests[1] # digests[2]
    /\ guids[1] = guids[2]

-----------------------------------------------------------------------------
(* Properties of the run *)

\* a response that passes the validation of download_feed
Valid(r) ==
    /\ ~r.exc
    /\ r.status = 200
    /\ r.ct_xml \/ r.ct_rss \/ r.rss_tag
    /\ r.item_tag

\* C3: download_feed requests the candidates in list order, a later one
\* only after every earlier one was rejected; it returns the content and URL
\* of the first candidate that passes validation and requests nothing after
\* it; it fails only when every candidate was requested and rejected.
C3_FirstValidInOrder ==
    /\ Len(tried) <= Len(FEED_URLS)
    /\ \A k \in DOMAIN tried : tried[k].url = FEED_URLS[k]
    /\ \A k \in 1..(Len(tried) - 1) : ~Valid(tried[k].response)
    /\ source_url # "none" =>
        /\ tried # <<>>
        /\ Valid(tried[Len(tried)].response)
        /\ xml_bytes = tried[Len(tried)].response
        /\ source_url = tried[Len(tried)].url
    /\ source_url = "none" => \A k \in DOMAIN tried : ~Valid(tried[k].response)
    /\ pc # "download" => (source_url = "none" <=> err = "RuntimeError")
    /\ err = "RuntimeError" => Len(tried) = Len(FEED_URLS)

\* the third candidate was returned after a request error and an HTML page
C3_Witness ==
    /\ pc = "done"
    /\ Len(tried) = 3
    /\ tried[1].response.exc
    /\ Outcome(tried[2].response) = "not-xml"
    /\ source_url = FEED_URLS[3]

\* the items of the written document, in order
WrittenItems == [i \in 1..(Len(file.chunks) - 2) |-> file.chunks[i + 1].body]

\* the raw listings classify_item includes
Included(items) ==
    {i \in DOMAIN items : classify_item(build_searchable_text(items[i])).action = "include"}

\* the publish date the item with this link was sorted by
DateOf(link) == SortKey((CHOOSE p \in Range(passed) : p.link = link).pub_dt)

C7_EveryTimestampAware ==
    /\ \A i \in DOMAIN passed : IsAware(passed[i].pub_dt)
    /\ err # "TypeError"

IsPrefix(s, t) == Len(s) <= Len(t) /\ s = SubSeq(t, 1, Len(s))

\* C4 as stated: in every state the file holds its previous content or the
\* complete new document, never a part of it, and a run that aborts leaves
\* the file as it was.
C4_NeverPartial ==
    /\ file = PreviousFile \/ (tree # <<>> /\ file.chunks = tree)
    /\ pc = "aborted" => file = PreviousFile

\* C4 amended: the file is touched by the final write only: up to the write
\* step, and after an abort by fetch exhaustion, a parse error or a failure
\* of the sort, it holds its previous content; after a successful run it
\* holds the complete new document; while the write runs, and after a
\* failure inside it, it holds a part of the new document, from its start.
C4_OnlyTheWriteTouchesTheFile ==
    /\ pc \in {"download", "parse", "classify", "write"} => file = PreviousFile
    /\ (pc = "aborted" /\ err \in {"RuntimeError", "ParseError", "TypeError"})
            => file = PreviousFile
    /\ ~file.previous =>
        /\ pc \in {"writing", "summary", "done"} \/ (pc = "aborted" /\ err = "OSError")
        /\ IsPrefix(file.chunks, tree)
    /\ pc \in {"summary", "done"} => (~file.previous /\ file.chunks = tree)

\* the write failed after the head of the document and before its end
C4_Witness ==
    /\ pc = "aborted"
    /\ err = "OSError"
    /\ ~file.previous
    /\ file.chunks # <<>>
    /\ Len(file.chunks) < Len(tree)

=============================================================================
